---------------------------- MODULE Spec2Model ----------------------------
(***************************************************************************)
(* A model of apkparser.APK (src/apkparser/__init__.py): the entry         *)
(* catalog, the CRC32 validator with its files_crc32 cache, the dex name   *)
(* classifier and the per-file report generator.                           *)
(*                                                                         *)
(* Names are sequences of one-character strings, so that the regular       *)
(* expressions of get_dex_names and is_multidex are matched character by   *)
(* character.  A CRC32 value is a pair <<high 16 bits, low 16 bits>>.      *)
(*                                                                         *)
(* The module under src/ uses the names crc32 and logger without binding   *)
(* them; they are read here as what they denote in the code this class was *)
(* taken from: the CRC-32 of zlib/binascii and the logging sink.           *)
(***************************************************************************)
EXTENDS Integers, Sequences, FiniteSets, TLC

VARIABLES
    namelist,     \* self.zip.namelist(): the entry names, in archive order
    entries,      \* self.zip: name -> [data, declared, corrupt]
    files_crc32,  \* self.files_crc32: dict name -> CRC32
    reads,        \* name -> number of self.zip.read(name) calls made so far
    crcs,         \* name -> number of crc32(buffer) computations made so far
    log,          \* the records passed to logger.error, in emission order
    gen,          \* the generator object of get_files_information
    hist,         \* the calls completed so far on this APK object, with results
    threads       \* per thread: the call it is in and its position in it

vars == <<namelist, entries, files_crc32, reads, crcs, log, gen, hist, threads>>

-----------------------------------------------------------------------------
(* Bounds of the model *)

\* the largest number of entries of an archive
MaxFiles == 2
\* the largest number of calls made in sequence on one APK object
MaxCalls == 3
\* the largest number of classifier queries made on one APK object
MaxQueries == 1
\* the number of threads sharing one APK object
MaxThreads == 2

None == "None"

-----------------------------------------------------------------------------
(* Characters and names *)

NL == "\n"

Digits == {"0", "1", "2", "3", "4", "5", "6", "7", "8", "9"}

ClassesStr == <<"c", "l", "a", "s", "s", "e", "s">>
DexStr == <<"d", "e", "x">>
DotDex == <<".">> \o DexStr

\* the literal of get_dex: "classes.dex"
ClassesDex == ClassesStr \o DotDex

Classes2Dex == ClassesStr \o <<"2">> \o DotDex
LibClasses2Dex == <<"l", "i", "b", "/">> \o Classes2Dex
ResArsc == <<"r", ".", "a">>

\* The names the archives of the classifier runs are built from.
DexNames ==
    { ClassesDex,
      Classes2Dex,
      ClassesStr \o <<"1", "0">> \o DotDex,
      ClassesStr \o <<".", "D", "E", "X">>,
      LibClasses2Dex,
      ClassesStr \o <<"X">> \o DotDex,
      ClassesStr \o <<"X">> \o DexStr,
      ClassesStr \o <<"2">> \o DexStr,
      ClassesDex \o <<NL>>,
      ClassesStr \o <<NL>> \o DexStr,
      ClassesDex \o <<"x">>,
      <<"x">> \o ClassesDex,
      <<"a", NL>> \o ClassesDex,
      ResArsc }

\* The names the archives of the validator runs are built from.
CrcNames == { ClassesDex, LibClasses2Dex, ResArsc }

\* The names of the archives shared by threads.
SharedNames == { ClassesDex, ResArsc }

-----------------------------------------------------------------------------
(* 32-bit words and CRC-32.  A word is <<high 16 bits, low 16 bits>>.      *)

\* the bitwise exclusive or of the n-bit numbers a and b
RECURSIVE XorBits(_, _, _)
XorBits(a, b, n) ==
    IF n = 0 THEN 0
    ELSE ((a + b) % 2) + 2 * XorBits(a \div 2, b \div 2, n - 1)

Xor(x, y) == <<XorBits(x[1], y[1], 16), XorBits(x[2], y[2], 16)>>

\* x >> 1
Shr1(x) == <<x[1] \div 2, (x[2] \div 2) + (x[1] % 2) * 32768>>

\* the reflected CRC-32 polynomial 0xEDB88320
CrcPoly == <<60856, 33568>>

\* 0xFFFFFFFF
AllOnes == <<65535, 65535>>

\* n rounds of the bitwise CRC: shift right, and xor the polynomial in when
\* the bit shifted out is set
RECURSIVE CrcShift(_, _)
CrcShift(c, n) ==
    IF n = 0 THEN c
    ELSE CrcShift(IF c[2] % 2 = 1 THEN Xor(Shr1(c), CrcPoly) ELSE Shr1(c),
                  n - 1)

RECURSIVE CrcUpdate(_, _)
CrcUpdate(c, data) ==
    IF data = <<>> THEN c
    ELSE CrcUpdate(CrcShift(Xor(c, <<0, Head(data)>>), 8), Tail(data))

\* crc32(buffer)
crc32(buffer) == Xor(CrcUpdate(AllOnes, buffer), AllOnes)

-----------------------------------------------------------------------------
(* The structural parser, self.zip *)

\* the payloads of the modelled archives (byte strings)
Payloads == { <<97>>, <<97, 98>> }

\* a declared checksum that no payload of Payloads has
WrongCrc == <<4660, 22136>>

\* The entries an archive can hold: sound ones, ones whose declared checksum
\* is not that of their content, and ones whose compressed stream is corrupt.
GoodEntries ==
    { [data |-> d, declared |-> crc32(d), corrupt |-> FALSE] : d \in Payloads }

EntryKinds ==
    GoodEntries
    \cup { [data |-> <<97>>, declared |-> WrongCrc, corrupt |-> FALSE] }
    \cup { [data |-> <<97>>, declared |-> crc32(<<97>>), corrupt |-> TRUE] }

Range(s) == { s[i] : i \in 1 .. Len(s) }

NoDuplicates(s) == \A i, j \in 1 .. Len(s) : i # j => s[i] # s[j]

NameLists(universe, n) ==
    UNION { { s \in [1 .. k -> universe] : NoDuplicates(s) } : k \in 0 .. n }

\* The archives shared by threads: no entry, one or two, each sound, with a
\* wrong declared checksum, or corrupt.
SharedLists == { <<>>, <<ClassesDex>>, <<ClassesDex, ResArsc>> }

SharedKinds == { e \in EntryKinds : e.data = <<97>> }

\* self.zip.read(filename): the payload, or the exception raised
ZipRead(zip, filename) ==
    IF filename \notin DOMAIN zip THEN [exc |-> "KeyError", buffer |-> None]
    ELSE IF zip[filename].corrupt THEN [exc |-> "MalformedEntry", buffer |-> None]
    ELSE [exc |-> None, buffer |-> zip[filename].data]

\* self.zip.infolist()[filename].crc32_of_uncompressed_data
DeclaredCrc(zip, filename) == zip[filename].declared


-----------------------------------------------------------------------------
(* The regular expressions of get_dex_names and is_multidex *)

\* \d
IsDigit(c) == c \in Digits

\* . (without DOTALL): any character but a newline
AnyChar(c) == c # NL

\* ^ (without MULTILINE): only at the start of the string
AtStart(s, i) == i = 1

\* $ (without MULTILINE): at the end, or before a newline that ends the string
AtEnd(s, i) == i = Len(s) + 1 \/ (i = Len(s) /\ s[i] = NL)

\* the characters of lit stand in s from position i on
Literal(s, i, lit) ==
    /\ i + Len(lit) - 1 <= Len(s)
    /\ \A j \in 1 .. Len(lit) : s[i + j - 1] = lit[j]

\* k digits stand in s from position i on
DigitRun(s, i, k) ==
    /\ i + k - 1 <= Len(s)
    /\ \A j \in 0 .. k - 1 : IsDigit(s[i + j])

\* classes(\d*).dex$ matched from position i, the digit group taking k digits
DexTail(s, i, k) ==
    LET p == i + Len(ClassesStr) IN
    /\ Literal(s, i, ClassesStr)
    /\ DigitRun(s, p, k)
    /\ p + k <= Len(s)
    /\ AnyChar(s[p + k])
    /\ Literal(s, p + k + 1, DexStr)
    /\ AtEnd(s, p + k + 1 + Len(DexStr))

\* re.compile(r"^classes(\d*).dex$").match(x): a match at the start of x
DexreMatch(x) ==
    /\ AtStart(x, 1)
    /\ \E k \in 0 .. Len(x) : DexTail(x, 1, k)

\* is_multidex's expression without its ^: a match at any position of x
MultidexSearchAnywhere(x) ==
    \E i \in 1 .. Len(x) + 1 :
        \/ DexTail(x, i, 0)
        \/ \E k \in 1 .. Len(x) : DexTail(x, i, k)

\* re.compile(r"^classes(\d+)?.dex$").search(x): a match at some position of
\* x; the group (\d+)? takes no digit or one or more
MultidexSearch(x) ==
    \E i \in 1 .. Len(x) + 1 :
        /\ AtStart(x, i)
        /\ \/ DexTail(x, i, 0)
           \/ \E k \in 1 .. Len(x) : DexTail(x, i, k)

-----------------------------------------------------------------------------
(* The methods of APK, each as a function of the object's state.  The      *)
(* state st is [cache, reads, crcs, log]; a result is [st, exc, value].    *)

EmptyDict == [n \in {} |-> None]

Bump(f, n) == IF n \in DOMAIN f THEN [f EXCEPT ![n] = @ + 1] ELSE f

Returns(st, value) == [st |-> st, exc |-> None, value |-> value]

Raises(st, exc) == [st |-> st, exc |-> exc, value |-> None]

\* get_files
get_files(names) == names

\* get_file: the read of the structural parser, KeyError turned into
\* FileNotPresent
get_file(st, zip, filename) ==
    LET r == ZipRead(zip, filename)
        st1 == [st EXCEPT !.reads = Bump(@, filename)]
    IN  IF r.exc = "KeyError" THEN Raises(st1, "FileNotPresent")
        ELSE IF r.exc # None THEN Raises(st1, r.exc)
        ELSE Returns(st1, r.buffer)

\* get_dex
get_dex(st, zip) ==
    LET r == get_file(st, zip, ClassesDex)
    IN  IF r.exc = "FileNotPresent" THEN Returns(r.st, <<>>) ELSE r

\* get_dex_names
get_dex_names(names) == SelectSeq(get_files(names), DexreMatch)

\* is_multidex
is_multidex(names) == Len(SelectSeq(get_files(names), MultidexSearch)) > 1

\* _get_crc32 without its test of the cache
NeedsCrcAlways(cache, filename) == TRUE

\* filename not in self.files_crc32
NeedsCrc(cache, filename) == filename \notin DOMAIN cache

\* an assignment that replaces the dict instead of adding the key
StoreCrcOnly(cache, filename, value) == [n \in {filename} |-> value]

\* self.files_crc32[filename] = value
StoreCrc(cache, filename, value) ==
    [n \in DOMAIN cache \cup {filename} |->
        IF n = filename THEN value ELSE cache[n]]

\* a comparison of the declared checksum with itself
CrcDiffersNever(cache, zip, filename) ==
    DeclaredCrc(zip, filename) # DeclaredCrc(zip, filename)

\* self.files_crc32[filename] != ...crc32_of_uncompressed_data
CrcDiffers(cache, zip, filename) == cache[filename] # DeclaredCrc(zip, filename)

\* the arguments formatted into the message of logger.error
LogRecord(cache, zip, filename) ==
    <<filename, DeclaredCrc(zip, filename), cache[filename]>>

\* _get_crc32
_get_crc32(st, zip, filename) ==
    LET r == ZipRead(zip, filename)
        st1 == [st EXCEPT !.reads = Bump(@, filename)]
    IN  IF r.exc # None THEN Raises(st1, r.exc)
        ELSE IF NeedsCrc(st1.cache, filename)
        THEN LET cache2 == StoreCrc(st1.cache, filename, crc32(r.buffer))
                 st2 == [st1 EXCEPT !.cache = cache2,
                                    !.crcs = Bump(@, filename)]
             IN  IF CrcDiffers(cache2, zip, filename)
                 THEN Returns([st2 EXCEPT !.log =
                                  Append(@, LogRecord(cache2, zip, filename))],
                              r.buffer)
                 ELSE Returns(st2, r.buffer)
        ELSE Returns(st1, r.buffer)

\* get_files_crc32 without its test of the cache
CacheIsEmptyAlways(cache) == TRUE

\* self.files_crc32 == {}
CacheIsEmpty(cache) == DOMAIN cache = {}

\* the loop of get_files_crc32 from the i-th name on; an exception of
\* _get_crc32 leaves the loop
RECURSIVE CrcLoop(_, _, _, _)
CrcLoop(st, zip, names, i) ==
    IF i > Len(names) THEN Returns(st, None)
    ELSE LET r == _get_crc32(st, zip, names[i])
         IN  IF r.exc # None THEN Raises(r.st, r.exc)
             ELSE CrcLoop(r.st, zip, names, i + 1)

\* get_files_crc32
get_files_crc32(st, zip, names) ==
    IF CacheIsEmpty(st.cache)
    THEN LET r == CrcLoop(st, zip, get_files(names), 1)
         IN  IF r.exc # None THEN r ELSE Returns(r.st, r.st.cache)
    ELSE Returns(st, st.cache)

\* get_files_types()[k]: the type label of entry k
FileType(k) == IF DexreMatch(k) THEN "primary-payload" ELSE "other"

\* One next() on the generator of get_files_information that has yielded
\* idx tuples: the tuple of the following name, or the exception that ends it.
NextInformation(st, zip, names, idx) ==
    IF idx >= Len(get_files(names)) THEN Raises(st, "StopIteration")
    ELSE LET k == get_files(names)[idx + 1]
             r == get_files_crc32(st, zip, names)
         IN  IF r.exc # None THEN r
             ELSE IF k \notin DOMAIN r.value THEN Raises(r.st, "KeyError")
             ELSE Returns(r.st, <<k, FileType(k), r.value[k]>>)


-----------------------------------------------------------------------------
(* Calls made one after the other on one APK object *)

State == [cache |-> files_crc32, reads |-> reads, crcs |-> crcs, log |-> log]

RECURSIVE SumOver(_, _)
SumOver(f, S) ==
    IF S = {} THEN 0
    ELSE LET n == CHOOSE n \in S : TRUE IN f[n] + SumOver(f, S \ {n})

Total(f) == SumOver(f, DOMAIN f)

\* The object after a call that ended with result r, and the call's record:
\* the exception it raised or the value it returned (in the field of the
\* value's type: buffer for bytes, dict, names, flag or tuple), the cache
\* before and after it, how many reads and checksum computations it made,
\* and the diagnostics it emitted.
Completes(op, arg, idx, r) ==
    /\ Len(hist) < MaxCalls
    /\ files_crc32' = r.st.cache
    /\ reads' = r.st.reads
    /\ crcs' = r.st.crcs
    /\ log' = r.st.log
    /\ hist' = Append(hist, [op |-> op, arg |-> arg, idx |-> idx,
                             exc |-> r.exc,
                             buffer |-> IF r.exc = None
                                           /\ op \in {"_get_crc32", "get_dex"}
                                        THEN r.value ELSE <<>>,
                             dict |-> IF r.exc = None /\ op = "get_files_crc32"
                                      THEN r.value ELSE EmptyDict,
                             names |-> IF op = "get_dex_names"
                                       THEN r.value ELSE <<>>,
                             flag |-> IF op = "is_multidex"
                                      THEN r.value ELSE FALSE,
                             tuple |-> IF r.exc = None /\ op = "next"
                                       THEN r.value ELSE <<>>,
                             pre |-> files_crc32, post |-> r.st.cache,
                             nreads |-> Total(r.st.reads) - Total(reads),
                             ncrcs |-> Total(r.st.crcs) - Total(crcs),
                             logs |-> SubSeq(r.st.log, Len(log) + 1,
                                             Len(r.st.log))])
    /\ UNCHANGED <<namelist, entries, threads>>

\* a caller asks for the checksum of one entry
CallGetCrc32 ==
    \E filename \in CrcNames :
        /\ Completes("_get_crc32", filename, 0, _get_crc32(State, entries, filename))
        /\ UNCHANGED gen

\* a caller asks for the checksums of all entries
CallGetFilesCrc32 ==
    /\ Completes("get_files_crc32", <<>>, 0, get_files_crc32(State, entries, namelist))
    /\ UNCHANGED gen

\* the consumer of get_files_information pulls the next tuple
PullInformation ==
    LET r == IF gen.done THEN Raises(State, "StopIteration")
             ELSE NextInformation(State, entries, namelist, gen.idx)
    IN  /\ Completes("next", <<>>, gen.idx, r)
        /\ gen' = IF r.exc = None THEN [gen EXCEPT !.idx = @ + 1]
                  ELSE [gen EXCEPT !.done = TRUE]

CallGetDexNames ==
    /\ Len(hist) < MaxQueries
    /\ Completes("get_dex_names", <<>>, 0, Returns(State, get_dex_names(namelist)))
    /\ UNCHANGED gen

CallIsMultidex ==
    /\ Len(hist) < MaxQueries
    /\ Completes("is_multidex", <<>>, 0, Returns(State, is_multidex(namelist)))
    /\ UNCHANGED gen

CallGetDex ==
    /\ Len(hist) < MaxQueries
    /\ Completes("get_dex", <<>>, 0, get_dex(State, entries))
    /\ UNCHANGED gen

\* The object after APK.__init__ on an archive whose list of names is drawn
\* from lists and whose entries are drawn from kinds.  get_files_information
\* has been called: the call runs no code of the generator's body.
InitArchive(lists, kinds, thr) ==
    /\ namelist \in lists
    /\ entries \in [Range(namelist) -> kinds]
    /\ files_crc32 = EmptyDict
    /\ reads = [n \in Range(namelist) |-> 0]
    /\ crcs = [n \in Range(namelist) |-> 0]
    /\ log = <<>>
    /\ gen = [idx |-> 0, done |-> FALSE]
    /\ hist = <<>>
    /\ threads = thr

Init == InitArchive(NameLists(CrcNames, MaxFiles), EntryKinds, <<>>)

Next == CallGetCrc32 \/ CallGetFilesCrc32 \/ PullInformation

Spec == Init /\ [][Next]_vars

InitNames == InitArchive(NameLists(DexNames, MaxFiles), GoodEntries, <<>>)

NextNames == CallGetDexNames \/ CallIsMultidex \/ CallGetDex

SpecNames == InitNames /\ [][NextNames]_vars


-----------------------------------------------------------------------------
(* Calls made by threads that share one APK object.  Each thread makes    *)
(* one call, the threads being numbered in the order in which they start, *)
(* and the interpreter can switch threads between any two accesses to the *)
(* object: a step is one access to self.zip, to                           *)
(* self.files_crc32 or to the logger, with the thread's own steps up to   *)
(* its next access.  The locals of a call are fname and buffer (of        *)
(* _get_crc32), i (the loop of get_files_crc32) and k (the loop of        *)
(* get_files_information, consumed to its end by the calling thread).     *)
(* An exception ends the call it is raised in.                            *)

Thread == 1 .. MaxThreads

At(t, pc) == threads[t].pc = pc

Goes(t, rec) ==
    /\ threads' = [threads EXCEPT ![t] = rec]
    /\ UNCHANGED <<namelist, entries, gen, hist>>

\* the call of thread t is over
Ends(th) == [th EXCEPT !.pc = "done", !.op = "none", !.fname = <<>>,
                       !.buffer = <<>>, !.i = 0, !.k = 0]

\* return self.files_crc32: to the caller of get_files_crc32, or to the
\* tuple under construction in get_files_information
ReturnsDict(th) ==
    IF th.op = "get_files_crc32" THEN Ends(th)
    ELSE [th EXCEPT !.pc = "index", !.i = 0]

\* for i in self.get_files(): self._get_crc32(i), at the i-th name
Loops(th, i) ==
    IF i > Len(get_files(namelist)) THEN ReturnsDict(th)
    ELSE [th EXCEPT !.pc = "read", !.i = i,
                    !.fname = get_files(namelist)[i], !.buffer = <<>>]

\* return buffer: to the caller of _get_crc32, or to the loop of
\* get_files_crc32
ReturnsBuffer(th) ==
    IF th.op = "_get_crc32" THEN Ends(th) ELSE Loops(th, th.i + 1)

\* for k in self.get_files(), at the k-th name
Yields(th, k) ==
    IF k > Len(get_files(namelist)) THEN Ends(th)
    ELSE [th EXCEPT !.pc = "empty", !.k = k]

Starts(t, rec) ==
    /\ At(t, "idle")
    /\ t > 1 => ~At(t - 1, "idle")
    /\ Goes(t, rec)
    /\ UNCHANGED <<files_crc32, reads, crcs, log>>

\* thread t calls _get_crc32(filename)
StartGetCrc32(t) ==
    \E filename \in SharedNames :
        Starts(t, [threads[t] EXCEPT !.op = "_get_crc32", !.pc = "read",
                                     !.fname = filename])

\* thread t calls get_files_crc32()
StartGetFilesCrc32(t) ==
    Starts(t, [threads[t] EXCEPT !.op = "get_files_crc32", !.pc = "empty"])

\* thread t starts to consume get_files_information()
StartGetFilesInformation(t) ==
    Starts(t, Yields([threads[t] EXCEPT !.op = "get_files_information"], 1))

\* buffer = self.zip.read(filename)
StepRead(t) ==
    /\ At(t, "read")
    /\ LET r == ZipRead(entries, threads[t].fname)
       IN  /\ reads' = Bump(reads, threads[t].fname)
           /\ IF r.exc # None THEN Goes(t, Ends(threads[t]))
              ELSE Goes(t, [threads[t] EXCEPT !.pc = "test",
                                              !.buffer = r.buffer])
    /\ UNCHANGED <<files_crc32, crcs, log>>

\* if filename not in self.files_crc32
StepTest(t) ==
    /\ At(t, "test")
    /\ IF NeedsCrc(files_crc32, threads[t].fname)
       THEN Goes(t, [threads[t] EXCEPT !.pc = "store"])
       ELSE Goes(t, ReturnsBuffer(threads[t]))
    /\ UNCHANGED <<files_crc32, reads, crcs, log>>

\* self.files_crc32[filename] = crc32(buffer)
StepStore(t) ==
    /\ At(t, "store")
    /\ crcs' = Bump(crcs, threads[t].fname)
    /\ files_crc32' = StoreCrc(files_crc32, threads[t].fname,
                               crc32(threads[t].buffer))
    /\ Goes(t, [threads[t] EXCEPT !.pc = "compare"])
    /\ UNCHANGED <<reads, log>>

\* if self.files_crc32[filename] != ...crc32_of_uncompressed_data
StepCompare(t) ==
    /\ At(t, "compare")
    /\ IF CrcDiffers(files_crc32, entries, threads[t].fname)
       THEN Goes(t, [threads[t] EXCEPT !.pc = "error"])
       ELSE Goes(t, ReturnsBuffer(threads[t]))
    /\ UNCHANGED <<files_crc32, reads, crcs, log>>

\* logger.error(...)
StepError(t) ==
    /\ At(t, "error")
    /\ log' = Append(log, LogRecord(files_crc32, entries, threads[t].fname))
    /\ Goes(t, ReturnsBuffer(threads[t]))
    /\ UNCHANGED <<files_crc32, reads, crcs>>

\* if self.files_crc32 == {}
StepEmpty(t) ==
    /\ At(t, "empty")
    /\ IF CacheIsEmpty(files_crc32)
       THEN Goes(t, Loops(threads[t], 1))
       ELSE Goes(t, ReturnsDict(threads[t]))
    /\ UNCHANGED <<files_crc32, reads, crcs, log>>

\* yield k, ..., self.get_files_crc32()[k]: the lookup in the dict returned,
\* which is the shared dict itself; a missing key raises KeyError
StepIndex(t) ==
    /\ At(t, "index")
    /\ IF get_files(namelist)[threads[t].k] \in DOMAIN files_crc32
       THEN Goes(t, Yields(threads[t], threads[t].k + 1))
       ELSE Goes(t, Ends(threads[t]))
    /\ UNCHANGED <<files_crc32, reads, crcs, log>>

InitShared ==
    InitArchive(SharedLists, SharedKinds,
                [t \in Thread |-> [pc |-> "idle", op |-> "none",
                                   fname |-> <<>>, buffer |-> <<>>,
                                   i |-> 0, k |-> 0]])

NextShared ==
    \E t \in Thread :
        \/ StartGetCrc32(t)
        \/ StartGetFilesCrc32(t)
        \/ StartGetFilesInformation(t)
        \/ StepRead(t)
        \/ StepTest(t)
        \/ StepStore(t)
        \/ StepCompare(t)
        \/ StepError(t)
        \/ StepEmpty(t)
        \/ StepIndex(t)

SpecShared == InitShared /\ [][NextShared]_vars

-----------------------------------------------------------------------------
(* Properties of sequential use *)

Names == Range(namelist)

Calls == 1 .. Len(hist)

Returned(h) == h.exc = None

\* the number of diagnostics of l that are about entry n
LogsFor(l, n) == Cardinality({ i \in 1 .. Len(l) : l[i][1] = n })

Readable(n) == ~entries[n].corrupt

\* the CRC32 of each payload of the modelled archives
PayloadCrc == [d \in Payloads |-> crc32(d)]

\* the declared checksum of n is not the CRC32 of its content
Mismatched(n) ==
    Readable(n) /\ entries[n].declared # PayloadCrc[entries[n].data]

FirstNames(k) == { namelist[i] : i \in 1 .. k }

\* call c validated entry n: n entered the cache during it
Validates(c, n) == n \notin DOMAIN hist[c].pre /\ n \in DOMAIN hist[c].post

\* C1: on an archive whose payloads can all be read, after any sequence of
\* single-entry validations, get_files_crc32 returns a mapping whose keys
\* are exactly the names of the archive, the entries already cached kept.
C1_BatchCoversAllNames ==
    \A c \in Calls :
        ( /\ hist[c].op = "get_files_crc32"
          /\ \A n \in Names : Readable(n)
          /\ \A j \in 1 .. c - 1 :
                hist[j].op = "_get_crc32" /\ Returned(hist[j]) )
        => /\ Returned(hist[c])
           /\ DOMAIN hist[c].dict = Names
           /\ \A n \in DOMAIN hist[c].pre : hist[c].dict[n] = hist[c].pre[n]

\* two consecutive calls of _get_crc32 for the same entry, both returning
ConsecutivePair(c, n) ==
    /\ c + 1 \in Calls
    /\ hist[c].op = "_get_crc32" /\ hist[c].arg = n /\ Returned(hist[c])
    /\ hist[c + 1].op = "_get_crc32" /\ hist[c + 1].arg = n
    /\ Returned(hist[c + 1])

\* C2 as claimed: two consecutive validations of one entry give the same
\* checksum and read the entry from the structural parser once in total,
\* the second neither reading nor hashing.
C2_ReadOnceInTotal ==
    \A c \in Calls : \A n \in Names :
        ConsecutivePair(c, n)
        => /\ hist[c].post[n] = hist[c + 1].post[n]
           /\ hist[c].nreads + hist[c + 1].nreads = 1
           /\ hist[c + 1].ncrcs = 0

\* C2 as amended: two consecutive validations of one entry leave the same
\* checksum in the cache and hash the payload at most once in total (once
\* when the entry was not cached before); the second call hashes nothing
\* and emits nothing, but each of the two calls reads the payload.
C2_HashOnceReadEachCall ==
    \A c \in Calls : \A n \in Names :
        ConsecutivePair(c, n)
        => /\ hist[c].post[n] = hist[c + 1].post[n]
           /\ hist[c].ncrcs = IF n \in DOMAIN hist[c].pre THEN 0 ELSE 1
           /\ hist[c + 1].ncrcs = 0
           /\ hist[c + 1].logs = <<>>
           /\ hist[c].nreads = 1
           /\ hist[c + 1].nreads = 1

C2_Witness ==
    \E c \in Calls : \E n \in Names :
        ConsecutivePair(c, n) /\ n \notin DOMAIN hist[c].pre

\* C4: for an entry whose declared checksum differs from the CRC32 of its
\* content, the cached and reported value is the computed checksum, and one
\* diagnostic (name, declared, computed) is emitted, by the call that first
\* validates the entry; no other call emits a diagnostic for it.
C4_MismatchReportedOnce ==
    \A m \in Names :
        Mismatched(m)
        => LET computed == PayloadCrc[entries[m].data]
               declared == entries[m].declared
           IN  /\ m \in DOMAIN files_crc32 => files_crc32[m] = computed
               /\ LogsFor(log, m) = IF m \in DOMAIN files_crc32 THEN 1 ELSE 0
               /\ \A i \in 1 .. Len(log) :
                     log[i][1] = m => log[i] = <<m, declared, computed>>
               /\ \A c \in Calls :
                     /\ LogsFor(hist[c].logs, m)
                            = IF Validates(c, m) THEN 1 ELSE 0
                     /\ ( /\ hist[c].op = "get_files_crc32"
                          /\ Returned(hist[c])
                          /\ m \in DOMAIN hist[c].dict )
                        => hist[c].dict[m] = computed
                     /\ ( /\ hist[c].op = "next"
                          /\ Returned(hist[c])
                          /\ hist[c].tuple[1] = m )
                        => hist[c].tuple[3] = computed

C4_Witness ==
    \E m \in Names : \E c, d \in Calls :
        /\ Mismatched(m)
        /\ c < d
        /\ Validates(c, m)
        /\ Returned(hist[d])
        /\ \/ hist[d].op = "_get_crc32" /\ hist[d].arg = m
           \/ hist[d].op = "get_files_crc32"

\* C7: every pull on get_files_information gives the tuple of the next name
\* of the archive, with the placeholder "unavailable" when the entry cannot
\* be read, and the generator raises nothing before the names are used up.
C7_ReportNeverRaises ==
    \A c \in Calls :
        hist[c].op = "next"
        => IF hist[c].idx < Len(namelist)
           THEN /\ Returned(hist[c])
                /\ hist[c].tuple[1] = namelist[hist[c].idx + 1]
                /\ ~Readable(namelist[hist[c].idx + 1])
                      => hist[c].tuple[3] = "unavailable"
           ELSE hist[c].exc = "StopIteration"

\* only the generator has been used, and every pull gave a tuple
OnlyPulls == \A c \in Calls : hist[c].op = "next"

OnlyTuples == \A c \in Calls : hist[c].op = "next" /\ Returned(hist[c])

WasRead == { n \in Names : reads[n] > 0 }

WasHashed == { n \in Names : crcs[n] > 0 }

\* C10 as claimed: when the consumer has pulled k tuples from an APK whose
\* cache was empty, the entries read and checksummed are exactly the first
\* k names of the archive.
C10_ValidatedAreFirstK ==
    OnlyTuples
    => /\ WasRead = FirstNames(gen.idx)
       /\ WasHashed = FirstNames(gen.idx)

\* C10 as amended: the tuples are yielded one by one but the checksums are
\* not computed one by one.  Before the first pull nothing has been read;
\* the first pull reads and checksums every name of the archive, once; a
\* later pull reads and checksums nothing.
C10_FirstPullValidatesAll ==
    OnlyPulls
    => /\ hist = <<>> => WasRead = {}
       /\ gen.idx >= 1
          => \A n \in Names :
                reads[n] = 1 /\ crcs[n] = 1 /\ n \in DOMAIN files_crc32
       /\ \A c \in Calls :
             Returned(hist[c])
             => /\ hist[c].idx = 0 => hist[c].ncrcs = Len(namelist)
                /\ hist[c].idx >= 1
                   => hist[c].nreads = 0 /\ hist[c].ncrcs = 0

C10_Witness ==
    /\ OnlyTuples
    /\ gen.idx = 1
    /\ Len(namelist) >= 2

-----------------------------------------------------------------------------
(* Properties of the classifier *)

\* "classes", decimal digits or none, ".dex", and nothing else
LiteralDexName(x) ==
    /\ Len(x) >= Len(ClassesStr) + Len(DotDex)
    /\ SubSeq(x, 1, Len(ClassesStr)) = ClassesStr
    /\ SubSeq(x, Len(x) - Len(DotDex) + 1, Len(x)) = DotDex
    /\ \A i \in Len(ClassesStr) + 1 .. Len(x) - Len(DotDex) : x[i] \in Digits

\* C5: get_dex_names gives the names of the archive that are "classes",
\* decimal digits or none, and the four characters ".dex", in archive order,
\* and no other name.
C5_PrimaryIffLiteralName ==
    \A c \in Calls :
        hist[c].op = "get_dex_names"
        => hist[c].names = SelectSeq(namelist, LiteralDexName)

\* the broader pattern of the claim: such a file name at the root or under
\* a directory
BroadDexName(x) ==
    \E i \in 1 .. Len(x) :
        /\ i = 1 \/ x[i - 1] = "/"
        /\ LiteralDexName(SubSeq(x, i, Len(x)))

\* "classes", digits or none, any one character but a newline, "dex"
RootAnyDex(y) ==
    /\ Len(y) >= Len(ClassesStr) + 1 + Len(DexStr)
    /\ SubSeq(y, 1, Len(ClassesStr)) = ClassesStr
    /\ SubSeq(y, Len(y) - Len(DexStr) + 1, Len(y)) = DexStr
    /\ y[Len(y) - Len(DexStr)] # NL
    /\ \A i \in Len(ClassesStr) + 1 .. Len(y) - Len(DexStr) - 1 :
          y[i] \in Digits

\* such a name, or such a name and one newline after it
RootAnyDexLine(x) ==
    \/ RootAnyDex(x)
    \/ /\ Len(x) > 0
       /\ x[Len(x)] = NL
       /\ RootAnyDex(SubSeq(x, 1, Len(x) - 1))

\* C6 as claimed, on the archives none of whose names is matched because
\* of the unescaped "." or of a final newline: is_multidex is true exactly
\* when two or more names match the broader pattern, so that names under a
\* directory count.
C6_NestedNamesCount ==
    \A c \in Calls :
        ( /\ hist[c].op = "is_multidex"
          /\ \A n \in Names : RootAnyDexLine(n) => LiteralDexName(n) )
        => hist[c].flag
              = (Cardinality({ n \in Names : BroadDexName(n) }) >= 2)

\* C6 as amended: is_multidex is true exactly when two or more names are,
\* from their first character on, "classes", digits or none, any one
\* character but a newline, "dex" (and at most one newline after it); a name
\* under a directory does not count.
C6_OnlyRootNamesCount ==
    \A c \in Calls :
        hist[c].op = "is_multidex"
        => /\ hist[c].flag
                 = (Cardinality({ n \in Names : RootAnyDexLine(n) }) >= 2)
           /\ Names = {ClassesDex, LibClasses2Dex} => hist[c].flag = FALSE
           /\ Names = {ClassesDex} => hist[c].flag = FALSE
           /\ Names = {ClassesDex, Classes2Dex} => hist[c].flag = TRUE

C6_Witness ==
    \E c \in Calls :
        /\ hist[c].op = "is_multidex"
        /\ Names = {ClassesDex, LibClasses2Dex}
        /\ hist[c].flag = FALSE

\* C9: get_dex returns the payload of "classes.dex" when the archive has
\* such an entry and raises FileNotPresent when it has none.
C9_GetDexRaisesWhenAbsent ==
    \A c \in Calls :
        hist[c].op = "get_dex"
        => IF ClassesDex \in Names
           THEN Returned(hist[c]) /\ hist[c].buffer = entries[ClassesDex].data
           ELSE hist[c].exc = "FileNotPresent"

-----------------------------------------------------------------------------
(* Properties of shared use *)

\* C3: whatever threads validate an entry at the same time, its checksum is
\* computed at most once and at most one diagnostic is emitted for it.
C3_AtMostOneComputation ==
    \A n \in Names : crcs[n] <= 1 /\ LogsFor(log, n) <= 1

\* C8: a step of any call, of any thread, leaves every name of the cache in
\* the cache, with the value it had.
C8_CacheOnlyGrows ==
    [][\A n \in DOMAIN files_crc32 :
          n \in DOMAIN files_crc32' /\ files_crc32'[n] = files_crc32[n]]_vars

\* two names are cached, one of them assigned by two racing calls, and
\* every call is over
C8_Witness ==
    /\ Cardinality(DOMAIN files_crc32) >= 2
    /\ \E n \in DOMAIN files_crc32 : crcs[n] >= 2
    /\ \A t \in Thread : At(t, "done")

=============================================================================
